---- MODULE Spec2Model ----
(***************************************************************************)
(* Process execution core of pgxn/build.                                   *)
(*                                                                         *)
(* Two ways of running a child process are modelled, both from the source: *)
(*   - Executor::execute (src/src/exec/mod.rs): two reader threads feed an *)
(*     mpsc channel that the calling thread drains into the out and err    *)
(*     sinks;                                                              *)
(*   - Pipeline::run (src/src/pipeline/mod.rs): the calling thread itself  *)
(*     alternates fill_buf() on the child's stdout and stderr pipes.       *)
(* The child process is an arbitrary program: it writes lines to stdout    *)
(* and stderr in any order, blocking while a pipe is full, and then exits  *)
(* with a status code or by a signal.                                      *)
(***************************************************************************)
EXTENDS Integers, Sequences, FiniteSets, TLC

(* ------------------------------ bounds -------------------------------- *)

\* Lines one child attempts to write (stdout and stderr together).
MaxLines == 3

\* Lines an OS pipe holds before the writer blocks.
PipeCap == 1

\* Calls made on one Executor / Pipeline instance.
MaxCalls == 2

(* --------------------------- value domains ---------------------------- *)

Streams == {"stdout", "stderr"}

\* Commands handed to execute / run.
Cmds == {"make", "./configure"}

\* e.kind() of a failed spawn.
SpawnErrorKinds == {"entity not found", "permission denied"}

\* Exit codes a child may return.
ExitCodes == {0, 2}

Exited(n) == [signal |-> FALSE, code |-> n]
Signaled == [signal |-> TRUE, code |-> -1]
NoStatus == [signal |-> FALSE, code |-> -2]

NoResult == [kind |-> "None", cmd |-> "", msg |-> "", code |-> 0]
Ok == [kind |-> "Ok", cmd |-> "", msg |-> "", code |-> 0]
Command(c, m, n) == [kind |-> "Command", cmd |-> c, msg |-> m, code |-> n]
Io(m) == [kind |-> "Io", cmd |-> "", msg |-> m, code |-> 0]
Panic(m) == [kind |-> "Panic", cmd |-> "", msg |-> m, code |-> 0]

\* The n-th line the child wrote to stream s.
Line(s, n) == [src |-> s, n |-> n]

\* struct Output { line, is_err }
Output(line, is_err) == [line |-> line, is_err |-> is_err]

\* Option<T>
Some(v) == [some |-> TRUE, val |-> v]
None == [some |-> FALSE, val |-> <<>>]

\* A file that does not exist; one that exists but cannot be opened; one that
\* can be opened and has the given content.
Absent == [exists |-> FALSE, open |-> FALSE, content |-> <<>>]
Unopenable == [exists |-> TRUE, open |-> FALSE, content |-> <<>>]
File(c) == [exists |-> TRUE, open |-> TRUE, content |-> c]

\* The names makefile() looks for, in its order.
MakefileNames == <<"GNUmakefile", "makefile", "Makefile">>

\* struct Context { score, config, err }
Context(score, config, e) == [score |-> score, config |-> config, err |-> e]

\* No evaluate() has been made; nothing has been built.
NoContext == [by |-> "", score |-> 0, config |-> <<>>, err |-> None]
NotBuilt == [by |-> "", kind |-> "None", name |-> "", msg |-> ""]

\* No get() has been made.
NoLookup == [done |-> FALSE, key |-> <<>>, val |-> None]

VARIABLES
    pc,        \* where the calling thread is
    ncalls,    \* calls started on this instance
    cmd,       \* the command of the current call
    child,     \* "none", "running" or "exited": the current call's child
    next,      \* what the running child does next: a stream to write, or "exit"
    left,      \* lines the child may still attempt to write
    written,   \* per stream, the lines the child has written into the pipe
    status,    \* the exit status of the child
    pipe,      \* per stream, the lines in the OS pipe
    thr,       \* per stream, the state of its reader thread
    rx,        \* the mpsc channel: Outputs sent and not yet received
    out,       \* what this call wrote to self.out
    err,       \* what this call wrote to self.err
    res,       \* what the call returned
    joined,    \* reader threads the calling thread has joined
    wfail,     \* a write to a sink has failed in this call
    orphans,   \* children of earlier calls that are still running
    color,     \* Executor.color
    outTerm,   \* self.out.is_terminal()
    errTerm,   \* self.err.is_terminal()
    buf,       \* Pipeline::run: per stream, the chunk fill_buf() returned
    fillErr,   \* Pipeline::run: a fill_buf() of this iteration returned Err
    pgtool,    \* PgConfig: the discovery tool: its path, whether it spawns, its status
    pgout,     \* PgConfig: what the discovery tool writes to stdout
    pgres,     \* PgConfig: what PgConfig::new returned
    table,     \* PgConfig: the HashMap of the PgConfig that was built
    lookup,    \* PgConfig: the last get(), its key and what it returned
    files,     \* the directory: the state of each build file (makefile)
    cargo,     \* the directory: the state of Cargo.toml
    meta,      \* the release metadata: its dependencies and their pipeline
    ctx,       \* the Context the last evaluate() returned
    built,     \* what Build::new, Build::detect or Builder::new returned
    called,    \* Builder: the lifecycle operation called last
    argv,      \* Pipeline::run: the command line of the Command that is run
    libdir,    \* the pkglibdir directory: how it takes a file, and its files
    conf,      \* the directory: the state of its configure script
    dist,      \* Dist: the release lists of the distribution
    best       \* Dist: what best_version returned

vars == <<pc, ncalls, cmd, child, next, left, written, status, pipe, thr, rx,
          out, err, res, joined, wfail, orphans, color, outTerm, errTerm,
          buf, fillErr, pgtool, pgout, pgres, table, lookup,
          files, cargo, meta, ctx, built, called, argv, libdir, conf, dist, best>>

childVars == <<child, next, left, written, status>>
sinkVars == <<out, err, wfail>>
termVars == <<color, outTerm, errTerm>>
runVars == <<buf, fillErr>>
callVars == <<ncalls, cmd, orphans>>
threadVars == <<thr, rx, joined>>
probeVars == <<pgtool, pgout, pgres, table, lookup>>
detectVars == <<files, cargo, meta, ctx, built>>
lifeVars == <<called, argv, libdir, conf>>
distVars == <<dist, best>>
hostVars == <<probeVars, detectVars, lifeVars, distVars>>

Empty == [s \in Streams |-> <<>>]

\* Nothing has been probed yet.
ProbeIdle ==
    /\ pgtool = [path |-> "", spawn |-> "ok", status |-> Exited(0)]
    /\ pgout = <<>>
    /\ pgres = NoResult
    /\ table = <<>>
    /\ lookup = NoLookup

\* An empty directory, metadata without dependencies, nothing evaluated.
DetectIdle ==
    /\ files = [n \in {MakefileNames[i] : i \in 1..3} |-> Absent]
    /\ cargo = Absent
    /\ meta = [dependencies |-> None]
    /\ ctx = NoContext
    /\ built = NotBuilt

\* No lifecycle operation has been called: no command line, an empty
\* pkglibdir that takes files and was never probed, no configure script.
LifeIdle ==
    /\ called = ""
    /\ argv = <<>>
    /\ libdir = [state |-> "writable", files |-> {}, probed |-> None]
    /\ conf = "absent"

\* A distribution without release lists, not asked for its best version.
DistIdle ==
    /\ dist = [stable |-> None, testing |-> None, unstable |-> None]
    /\ best = [kind |-> "None", version |-> 0, msg |-> ""]

\* Executor / Pipeline after construction.
CoreInit ==
    /\ pc = "idle"
    /\ ncalls = 0
    /\ cmd = ""
    /\ child = "none"
    /\ next = "exit"
    /\ left = 0
    /\ written = [s \in Streams |-> 0]
    /\ status = NoStatus
    /\ pipe = Empty
    /\ thr = [s \in Streams |-> "none"]
    /\ rx = <<>>
    /\ out = <<>>
    /\ err = <<>>
    /\ res = NoResult
    /\ joined = {}
    /\ wfail = FALSE
    /\ orphans = 0
    /\ color \in BOOLEAN
    /\ outTerm \in BOOLEAN
    /\ errTerm \in BOOLEAN
    /\ buf = Empty
    /\ fillErr = FALSE

Init == CoreInit /\ ProbeIdle /\ DetectIdle /\ LifeIdle /\ DistIdle

(* --------------------------- the child process ------------------------ *)

\* The read end of the pipe of stream s is held open: by its reader thread
\* (execute) or by the BufReaders of the fill_buf loop (run).
ReadOpen(s) == thr[s] = "running" \/ pc \in {"fill_out", "fill_err", "write"}

\* What the child does after its current operation.
ChildPlans(l) == IF l > 0 THEN Streams \cup {"exit"} ELSE {"exit"}

\* What no step of the child changes.
ChildFrame == UNCHANGED <<pc, callVars, threadVars, sinkVars, res, termVars, runVars, hostVars>>

\* The child writes one line to stream s; it blocks while the pipe is full.
ChildWrite(s) ==
    /\ child = "running"
    /\ next = s
    /\ ReadOpen(s)
    /\ Len(pipe[s]) < PipeCap
    /\ pipe' = [pipe EXCEPT ![s] = Append(@, Line(s, written[s] + 1))]
    /\ written' = [written EXCEPT ![s] = @ + 1]
    /\ left' = left - 1
    /\ next' \in ChildPlans(left')
    /\ UNCHANGED <<child, status>>
    /\ ChildFrame

\* The child writes to a pipe whose read end is closed: the write fails with
\* EPIPE and the child carries on without that line.
ChildWriteBroken(s) ==
    /\ child = "running"
    /\ next = s
    /\ ~ReadOpen(s)
    /\ left' = left - 1
    /\ next' \in ChildPlans(left')
    /\ UNCHANGED <<child, status, written, pipe>>
    /\ ChildFrame

\* The child writes to a pipe whose read end is closed and SIGPIPE kills it.
ChildSigpipe(s) ==
    /\ child = "running"
    /\ next = s
    /\ ~ReadOpen(s)
    /\ child' = "exited"
    /\ status' = Signaled
    /\ next' = "exit"
    /\ UNCHANGED <<left, written, pipe>>
    /\ ChildFrame

\* The child exits, with an exit code or killed by a signal.
ChildExit ==
    /\ child = "running"
    /\ next = "exit"
    /\ child' = "exited"
    /\ status' \in {Exited(n) : n \in ExitCodes} \cup {Signaled}
    /\ UNCHANGED <<next, left, written, pipe>>
    /\ ChildFrame

ChildStep ==
    \/ \E s \in Streams : ChildWrite(s)
    \/ \E s \in Streams : ChildWriteBroken(s)
    \/ \E s \in Streams : ChildSigpipe(s)
    \/ ChildExit

\* A child that an earlier call left running exits.
OrphanExit ==
    /\ orphans > 0
    /\ orphans' = orphans - 1
    /\ UNCHANGED <<pc, ncalls, cmd, childVars, pipe, threadVars, sinkVars, res,
                   termVars, runVars, hostVars>>

\* Children spawned by this instance that are running.
Alive == orphans + (IF child = "running" THEN 1 ELSE 0)

(* ------------------------- starting a call ---------------------------- *)

\* The state a call starts from: the previous call's child, if it is still
\* running, stays behind; pipes, threads and channel are the new call's.
BeginCall(c) ==
    /\ pc \in {"idle", "returned", "spawn"}
    /\ ncalls < MaxCalls
    /\ ncalls' = ncalls + 1
    /\ cmd' = c
    /\ orphans' = Alive
    /\ written' = [s \in Streams |-> 0]
    /\ pipe' = Empty
    /\ rx' = <<>>
    /\ out' = <<>>
    /\ err' = <<>>
    /\ wfail' = FALSE
    /\ joined' = {}
    /\ buf' = Empty
    /\ fillErr' = FALSE
    /\ UNCHANGED <<termVars, hostVars>>

\* SpawnError with the OS error kind left out of the message.
SpawnErrorNoKind(c, kind) == Command(c, "spawn failed", 0)

\* cmd.spawn() failed: BuildError::Command(format!("{:?}", cmd), e.kind()).
SpawnError(c, kind) == Command(c, kind, 0)

\* The reader threads that exist when spawn has failed.
ThreadsOnSpawnError == [s \in Streams |-> "none"]

\* A call whose cmd.spawn() fails: the `?` returns at once.
SpawnFailed(c, kind) ==
    /\ BeginCall(c)
    /\ child' = "none"
    /\ next' = "exit"
    /\ left' = 0
    /\ status' = NoStatus
    /\ thr' = ThreadsOnSpawnError
    /\ res' = SpawnError(c, kind)
    /\ pc' = "returned"

\* A call whose cmd.spawn() succeeds: the child runs.
Spawned(c) ==
    /\ BeginCall(c)
    /\ child' = "running"
    /\ left' = MaxLines
    /\ next' \in ChildPlans(left')
    /\ status' = NoStatus
    /\ res' = NoResult

\* Finished with the exit code ignored: only a signal is a failure.
FinishedIgnoringCode(c, st) ==
    IF st.signal THEN Command(c, "process terminated by signal", 0) ELSE Ok

\* How the command finished (the match on child.wait()'s status).
Finished(c, st) ==
    IF st.signal THEN Command(c, "process terminated by signal", 0)
    ELSE IF st.code # 0 THEN Command(c, "exited with status code", st.code)
    ELSE Ok

\* What a sink holds for one written line.
Written(line, styled) == [line |-> line, styled |-> styled]

(* ------------------------- Executor::execute -------------------------- *)

ExecuteSpawnFailed(c, kind) == SpawnFailed(c, kind)

\* execute, when the child is spawned: both pipes are taken (they exist, both
\* streams being piped), the channel is created and both reader threads are
\* started.
ExecuteSpawned(c) ==
    /\ Spawned(c)
    /\ thr' = [s \in Streams |-> "running"]
    /\ pc' = "consume"

\* The receiver is alive while the calling thread is in its `for output in rx`.
RxOpen == pc = "consume"

\* Send that puts the Output at the head of the channel.
SendFirst(ch, o) == <<o>> \o ch

\* otx.send(output) / etx.send(output) on the unbounded channel.
Send(ch, o) == Append(ch, o)

\* ReaderRuns with the pipes read one after the other: stderr is read only
\* when the stdout reader is done.
ReaderRunsInTurn(s) ==
    thr[s] = "running" /\ (s = "stderr" => thr["stdout"] # "running")

\* The reader thread of stream s may run.
ReaderRuns(s) == thr[s] = "running"

\* What no step of a reader thread changes.
ReaderFrame ==
    UNCHANGED <<pc, callVars, childVars, sinkVars, res, joined, termVars, runVars, hostVars>>

\* A reader gets the next line of its pipe and sends it, tagged with its
\* stream; send(..).unwrap() panics when the receiver is gone.
ReadLine(s) ==
    /\ ReaderRuns(s)
    /\ pipe[s] # <<>>
    /\ pipe' = [pipe EXCEPT ![s] = Tail(@)]
    /\ IF RxOpen
       THEN /\ rx' = Send(rx, Output(Head(pipe[s]), s = "stderr"))
            /\ thr' = thr
       ELSE /\ rx' = rx
            /\ thr' = [thr EXCEPT ![s] = "panicked"]
    /\ ReaderFrame

\* Reading the next line fails (`line?`): the reader returns the io::Error,
\* dropping its sender and the pipe.
ReadFail(s) ==
    /\ ReaderRuns(s)
    /\ pipe[s] # <<>>
    /\ pipe' = [pipe EXCEPT ![s] = Tail(@)]
    /\ thr' = [thr EXCEPT ![s] = "failed"]
    /\ rx' = rx
    /\ ReaderFrame

\* End of file: the pipe is drained and the child has exited.
ReadEof(s) ==
    /\ ReaderRuns(s)
    /\ pipe[s] = <<>>
    /\ child = "exited"
    /\ thr' = [thr EXCEPT ![s] = "ok"]
    /\ UNCHANGED <<pipe, rx>>
    /\ ReaderFrame

ReaderStep(s) == ReadLine(s) \/ ReadFail(s) \/ ReadEof(s)

\* Which of the four branches of the consumer loop runs.
Branch ==
    IF ~color \/ (~outTerm /\ ~errTerm) THEN 1
    ELSE IF outTerm /\ errTerm THEN 2
    ELSE IF outTerm THEN 3
    ELSE 4

\* Dispatch with the sinks of the last branch exchanged.
DispatchSwapped(b, o) ==
    CASE b = 1 -> IF o.is_err THEN [sink |-> "err", styled |-> FALSE]
                  ELSE [sink |-> "out", styled |-> FALSE]
      [] b = 2 -> IF o.is_err THEN [sink |-> "err", styled |-> TRUE]
                  ELSE [sink |-> "out", styled |-> TRUE]
      [] b = 3 -> IF o.is_err THEN [sink |-> "err", styled |-> FALSE]
                  ELSE [sink |-> "out", styled |-> TRUE]
      [] b = 4 -> IF o.is_err THEN [sink |-> "out", styled |-> TRUE]
                  ELSE [sink |-> "err", styled |-> FALSE]

\* The sink an Output is written to in branch b, and whether it is coloured.
Dispatch(b, o) ==
    CASE b = 1 -> IF o.is_err THEN [sink |-> "err", styled |-> FALSE]
                  ELSE [sink |-> "out", styled |-> FALSE]
      [] b = 2 -> IF o.is_err THEN [sink |-> "err", styled |-> TRUE]
                  ELSE [sink |-> "out", styled |-> TRUE]
      [] b = 3 -> IF o.is_err THEN [sink |-> "err", styled |-> FALSE]
                  ELSE [sink |-> "out", styled |-> TRUE]
      [] b = 4 -> IF o.is_err THEN [sink |-> "err", styled |-> TRUE]
                  ELSE [sink |-> "out", styled |-> FALSE]

\* What no step of the calling thread changes.
MainFrame == UNCHANGED <<callVars, childVars, pipe, thr, termVars, runVars, hostVars>>

\* The consumer loop receives one Output and writes it to its sink.
Consume ==
    /\ pc = "consume"
    /\ rx # <<>>
    /\ rx' = Tail(rx)
    /\ LET d == Dispatch(Branch, Head(rx))
           w == Written(Head(rx).line, d.styled)
       IN  /\ out' = IF d.sink = "out" THEN Append(out, w) ELSE out
           /\ err' = IF d.sink = "err" THEN Append(err, w) ELSE err
    /\ UNCHANGED <<pc, res, wfail, joined>>
    /\ MainFrame

\* writeln!/cwriteln! fails: the `?` returns the io::Error at once; the
\* receiver is dropped, the child is not waited for, no thread is joined.
ConsumeWriteFails ==
    /\ pc = "consume"
    /\ rx # <<>>
    /\ rx' = Tail(rx)
    /\ wfail' = TRUE
    /\ res' = Io(Dispatch(Branch, Head(rx)).sink \o " write")
    /\ pc' = "returned"
    /\ UNCHANGED <<out, err, joined>>
    /\ MainFrame

\* The channel is empty and both senders are dropped: the loop ends.
ConsumeEnd ==
    /\ pc = "consume"
    /\ rx = <<>>
    /\ \A s \in Streams : thr[s] # "running"
    /\ pc' = "wait"
    /\ UNCHANGED <<rx, sinkVars, res, joined>>
    /\ MainFrame

\* child.wait() returns once the child has exited.
Wait ==
    /\ pc = "wait"
    /\ child = "exited"
    /\ pc' = "join_out"
    /\ UNCHANGED <<rx, sinkVars, res, joined>>
    /\ MainFrame

\* JoinOutcome with the reader's io::Error dropped.
JoinOutcomeSwallowed(s, t) ==
    IF t = "panicked" THEN Panic("join") ELSE NoResult

\* thread.join().unwrap()? : what the join of a finished reader of stream s
\* makes of the call: NoResult to go on, or the result returned.
JoinOutcome(s, t) ==
    CASE t = "ok" -> NoResult
      [] t = "failed" -> Io(s \o " read")
      [] t = "panicked" -> Panic("join")

\* Where the calling thread is after it ended with result r.
Ended(r) == IF r.kind = "Panic" THEN "panicked" ELSE "returned"

\* stdout_thread.join().unwrap()?
JoinOut ==
    /\ pc = "join_out"
    /\ thr["stdout"] # "running"
    /\ joined' = joined \cup {"stdout"}
    /\ LET r == JoinOutcome("stdout", thr["stdout"])
       IN  IF r = NoResult
           THEN pc' = "join_err" /\ res' = res
           ELSE pc' = Ended(r) /\ res' = r
    /\ UNCHANGED <<rx, sinkVars>>
    /\ MainFrame

\* stderr_thread.join().unwrap()? and the match on the exit status.
JoinErr ==
    /\ pc = "join_err"
    /\ thr["stderr"] # "running"
    /\ joined' = joined \cup {"stderr"}
    /\ LET r == JoinOutcome("stderr", thr["stderr"])
       IN  IF r = NoResult
           THEN pc' = "returned" /\ res' = Finished(cmd, status)
           ELSE pc' = Ended(r) /\ res' = r
    /\ UNCHANGED <<rx, sinkVars>>
    /\ MainFrame

MainStep == Consume \/ ConsumeWriteFails \/ ConsumeEnd \/ Wait \/ JoinOut \/ JoinErr

Next ==
    \/ \E c \in Cmds : ExecuteSpawned(c)
    \/ \E c \in Cmds, k \in SpawnErrorKinds : ExecuteSpawnFailed(c, k)
    \/ Consume
    \/ ConsumeWriteFails
    \/ ConsumeEnd
    \/ Wait
    \/ JoinOut
    \/ JoinErr
    \/ \E s \in Streams : ReadLine(s)
    \/ \E s \in Streams : ReadFail(s)
    \/ \E s \in Streams : ReadEof(s)
    \/ \E s \in Streams : ChildWrite(s)
    \/ \E s \in Streams : ChildWriteBroken(s)
    \/ \E s \in Streams : ChildSigpipe(s)
    \/ ChildExit
    \/ OrphanExit

Spec == Init /\ [][Next]_vars

\* The scheduler is fair to the calling thread, to each reader thread and to
\* the child process: each of them takes a step when it can.
Fairness ==
    /\ WF_vars(MainStep)
    /\ \A s \in Streams : WF_vars(ReaderStep(s))
    /\ WF_vars(ChildStep)

\* One call of execute on a new Executor: the steps of the calling thread,
\* of the reader threads and of the child.
FairNext ==
    \/ \E c \in Cmds : pc = "idle" /\ ExecuteSpawned(c)
    \/ \E c \in Cmds, k \in SpawnErrorKinds : pc = "idle" /\ ExecuteSpawnFailed(c, k)
    \/ Consume
    \/ ConsumeWriteFails
    \/ ConsumeEnd
    \/ Wait
    \/ JoinOut
    \/ JoinErr
    \/ \E s \in Streams : ReadLine(s)
    \/ \E s \in Streams : ReadFail(s)
    \/ \E s \in Streams : ReadEof(s)
    \/ \E s \in Streams : ChildWrite(s)
    \/ \E s \in Streams : ChildWriteBroken(s)
    \/ \E s \in Streams : ChildSigpipe(s)
    \/ ChildExit

FairSpec == Init /\ [][FairNext]_vars /\ Fairness

(* --------------------------- Pipeline::run ---------------------------- *)

RunSpawnFailed(c, kind) == SpawnFailed(c, kind)

\* run, when the child is spawned: both pipes are wrapped in BufReaders and
\* the loop starts with child_out.fill_buf(). No thread is started.
RunSpawned(c) ==
    /\ Spawned(c)
    /\ thr' = [s \in Streams |-> "none"]
    /\ pc' = "fill_out"

\* What no step of run's loop changes.
RunFrame == UNCHANGED <<callVars, childVars, threadVars, termVars, hostVars>>

\* fill_buf() on the pipe of stream s returns: the bytes in the pipe, or
\* nothing at end of file. It blocks while the pipe is empty and the child runs.
FillReturns(s) == pipe[s] # <<>> \/ child = "exited"

\* child_out.fill_buf() returns Ok.
FillOut ==
    /\ pc = "fill_out"
    /\ FillReturns("stdout")
    /\ buf' = [buf EXCEPT !["stdout"] = pipe["stdout"]]
    /\ pipe' = [pipe EXCEPT !["stdout"] = <<>>]
    /\ pc' = "fill_err"
    /\ UNCHANGED <<fillErr, sinkVars, res>>
    /\ RunFrame

\* child_out.fill_buf() returns Err; child_err.fill_buf() is still called.
FillOutFails ==
    /\ pc = "fill_out"
    /\ FillReturns("stdout")
    /\ fillErr' = TRUE
    /\ pc' = "fill_err"
    /\ UNCHANGED <<buf, pipe, sinkVars, res>>
    /\ RunFrame

\* child_err.fill_buf() returns Ok.
FillErr ==
    /\ pc = "fill_err"
    /\ FillReturns("stderr")
    /\ buf' = [buf EXCEPT !["stderr"] = pipe["stderr"]]
    /\ pipe' = [pipe EXCEPT !["stderr"] = <<>>]
    /\ pc' = "write"
    /\ UNCHANGED <<fillErr, sinkVars, res>>
    /\ RunFrame

\* child_err.fill_buf() returns Err.
FillErrFails ==
    /\ pc = "fill_err"
    /\ FillReturns("stderr")
    /\ fillErr' = TRUE
    /\ pc' = "write"
    /\ UNCHANGED <<buf, pipe, sinkVars, res>>
    /\ RunFrame

\* What run makes of a pair of fill_buf() results one of which is Err.
OnFillError == Panic("Some better error handling here...")

\* The `other =>` arm of the match.
RunFillError ==
    /\ pc = "write"
    /\ fillErr
    /\ res' = OnFillError
    /\ pc' = Ended(res')
    /\ UNCHANGED <<buf, fillErr, pipe, sinkVars>>
    /\ RunFrame

\* A chunk as it reaches a sink, coloured when the sink is a terminal.
Chunk(lines, term) == [i \in 1..Len(lines) |-> Written(lines[i], term)]

\* Both chunks are written; the loop ends when both were empty, and goes on
\* with the next fill_buf() after consuming them when not.
RunWrite ==
    /\ pc = "write"
    /\ ~fillErr
    /\ out' = out \o Chunk(buf["stdout"], outTerm)
    /\ err' = err \o Chunk(buf["stderr"], errTerm)
    /\ pc' = IF buf["stdout"] = <<>> /\ buf["stderr"] = <<>> THEN "wait" ELSE "fill_out"
    /\ buf' = Empty
    /\ UNCHANGED <<fillErr, pipe, wfail, res>>
    /\ RunFrame

\* The write to stdout fails: the `?` returns with the child not waited for.
RunWriteOutFails ==
    /\ pc = "write"
    /\ ~fillErr
    /\ buf["stdout"] # <<>> \/ outTerm
    /\ wfail' = TRUE
    /\ res' = Io("out write")
    /\ pc' = "returned"
    /\ UNCHANGED <<buf, fillErr, pipe, out, err>>
    /\ RunFrame

\* The write to stderr fails, after the stdout chunk was written.
RunWriteErrFails ==
    /\ pc = "write"
    /\ ~fillErr
    /\ buf["stderr"] # <<>> \/ errTerm
    /\ out' = out \o Chunk(buf["stdout"], outTerm)
    /\ wfail' = TRUE
    /\ res' = Io("err write")
    /\ pc' = "returned"
    /\ UNCHANGED <<buf, fillErr, pipe, err>>
    /\ RunFrame

\* child.wait() and the match on its status.
RunWait ==
    /\ pc = "wait"
    /\ child = "exited"
    /\ res' = Finished(cmd, status)
    /\ pc' = "returned"
    /\ UNCHANGED <<buf, fillErr, pipe, sinkVars>>
    /\ RunFrame

RunMainStep ==
    \/ FillOut
    \/ FillOutFails
    \/ FillErr
    \/ FillErrFails
    \/ RunFillError
    \/ RunWrite
    \/ RunWriteOutFails
    \/ RunWriteErrFails
    \/ RunWait

RunNext ==
    \/ \E c \in Cmds : RunSpawned(c)
    \/ \E c \in Cmds, k \in SpawnErrorKinds : RunSpawnFailed(c, k)
    \/ FillOut
    \/ FillOutFails
    \/ FillErr
    \/ FillErrFails
    \/ RunFillError
    \/ RunWrite
    \/ RunWriteOutFails
    \/ RunWriteErrFails
    \/ RunWait
    \/ \E s \in Streams : ChildWrite(s)
    \/ \E s \in Streams : ChildWriteBroken(s)
    \/ \E s \in Streams : ChildSigpipe(s)
    \/ ChildExit
    \/ OrphanExit

RunSpec == Init /\ [][RunNext]_vars

(* ------------------------- PgConfig (pg_config) ----------------------- *)

\* Length of the discovery tool's stdout, in the units below.
MaxOut == 5

\* The delimiter PgConfig::new splits on, and the line terminator.
Sep == " = "
Newline == "\n"

\* A byte that is not UTF-8, and what from_utf8_lossy() puts in its place.
BadByte == "0xFF"
Replacement == "U+FFFD"

\* What stdout is made of: an ASCII letter in upper and in lower case, a
\* non-ASCII upper-case letter (U+00C9, whose lower case is U+00E9), the
\* delimiter, the line terminator and the bad byte.
PgAtoms == {"B", "b", "U+00C9", Sep, Newline, BadByte}

\* What the tool may write to stdout.
PgOutputs == UNION {[1..k -> PgAtoms] : k \in 0..MaxOut}

\* The path handed to PgConfig::new.
PgPaths == {"pg_config", "/opt/pg/bin/pg_config"}

\* BufRead::lines(): the text between line terminators; a terminator at the
\* very end starts no further line.
RECURSIVE Lines(_)
Lines(outp) ==
    IF outp = <<>> THEN <<>>
    ELSE IF \E i \in 1..Len(outp) : outp[i] = Newline
    THEN LET n == CHOOSE i \in 1..Len(outp) :
                    outp[i] = Newline /\ \A j \in 1..(i - 1) : outp[j] # Newline
         IN  <<SubSeq(outp, 1, n - 1)>> \o Lines(SubSeq(outp, n + 1, Len(outp)))
    ELSE <<outp>>

IsUtf8(line) == \A i \in 1..Len(line) : line[i] # BadByte

\* String::from_utf8_lossy(&out.stdout)
FromUtf8Lossy(outp) ==
    [i \in 1..Len(outp) |-> IF outp[i] = BadByte THEN Replacement ELSE outp[i]]

\* char::to_ascii_lowercase
AsciiLower(a) == IF a = "B" THEN "b" ELSE a

\* str::to_ascii_lowercase
ToAsciiLowercase(text) == [i \in 1..Len(text) |-> AsciiLower(text[i])]

\* Index of the first delimiter of a line, 0 when it has none.
FindSep(line) ==
    IF \E i \in 1..Len(line) : line[i] = Sep
    THEN CHOOSE i \in 1..Len(line) :
            line[i] = Sep /\ \A j \in 1..(i - 1) : line[j] # Sep
    ELSE 0

\* line.splitn(2, " = "): the pieces, one or two.
Splitn2(line) ==
    LET i == FindSep(line)
    IN  IF i = 0 THEN <<line>>
        ELSE <<SubSeq(line, 1, i - 1), SubSeq(line, i + 1, Len(line))>>

\* HashMap::new() and HashMap::insert
EmptyMap == [k \in {} |-> <<>>]
Insert(m, k, v) == [x \in DOMAIN m \cup {k} |-> IF x = k THEN v ELSE m[x]]

\* reader.lines().map_while(Result::ok): the lines before the first one
\* that is not UTF-8.
DecodedLines(outp) ==
    LET ls == Lines(outp)
        bad == {i \in 1..Len(ls) : ~IsUtf8(ls[i])}
    IN  IF bad = {} THEN ls
        ELSE SubSeq(ls, 1, (CHOOSE i \in bad : \A j \in bad : i <= j) - 1)

\* The body of the parsing loop, for one line.
ParseLine(m, line) ==
    LET split == Splitn2(line)
    IN  IF Len(split) = 2
        THEN Insert(m, ToAsciiLowercase(split[1]), split[2])
        ELSE m

\* The parsing loop.
RECURSIVE ParseLines(_, _)
ParseLines(ls, m) ==
    IF ls = <<>> THEN m ELSE ParseLines(Tail(ls), ParseLine(m, Head(ls)))

\* The table PgConfig::new builds from the tool's stdout.
Parse(outp) == ParseLines(DecodedLines(outp), EmptyMap)

\* PgConfig::get
Get(m, k) == IF k \in DOMAIN m THEN Some(m[k]) ELSE None

ProbeFrame ==
    UNCHANGED <<pc, callVars, childVars, pipe, threadVars, sinkVars, res,
                termVars, runVars, detectVars, lifeVars, distVars>>

\* The discovery tool: the path handed to PgConfig::new, and how running it
\* goes: cmd.output() fails with an OS error kind, or the tool runs and ends
\* with a status.
PgTools ==
    {[path |-> p, spawn |-> k, status |-> NoStatus] :
        p \in PgPaths, k \in SpawnErrorKinds}
    \cup {[path |-> p, spawn |-> "ok", status |-> st] :
        p \in PgPaths, st \in {Exited(n) : n \in ExitCodes} \cup {Signaled}}

\* ExitStatus::success()
Success(st) == ~st.signal /\ st.code = 0

\* The error of a tool that ran without success, its stdout left out.
ExitErrorNoStdout(p, outp) == Command(p, <<>>, 0)

\* The error of a tool that ran without success.
ExitError(p, outp) == Command(p, FromUtf8Lossy(outp), 0)

\* cmd.output() fails: the tool could not be spawned.
PgConfigSpawnFailed ==
    /\ pgres = NoResult
    /\ pgtool.spawn # "ok"
    /\ pgres' = SpawnError(pgtool.path, pgtool.spawn)
    /\ UNCHANGED <<pgtool, pgout, table, lookup>>
    /\ ProbeFrame

\* The tool ran and did not succeed.
PgConfigExitFailed ==
    /\ pgres = NoResult
    /\ pgtool.spawn = "ok"
    /\ ~Success(pgtool.status)
    /\ pgres' = ExitError(pgtool.path, pgout)
    /\ UNCHANGED <<pgtool, pgout, table, lookup>>
    /\ ProbeFrame

\* The tool ran and succeeded: its stdout is parsed.
PgConfigNew ==
    /\ pgres = NoResult
    /\ pgtool.spawn = "ok"
    /\ Success(pgtool.status)
    /\ pgres' = Ok
    /\ table' = Parse(pgout)
    /\ UNCHANGED <<pgtool, pgout, lookup>>
    /\ ProbeFrame

\* The keys get() is called with.
LookupKeys == UNION {[1..k -> {"B", "b", "U+00C9", "U+00E9"}] : k \in 0..1}

\* cfg.get(k) on the PgConfig that was built.
PgConfigGet(k) ==
    /\ pgres = Ok
    /\ lookup' = [done |-> TRUE, key |-> k, val |-> Get(table, k)]
    /\ UNCHANGED <<pgtool, pgout, pgres, table>>
    /\ ProbeFrame

ProbeInit ==
    /\ CoreInit
    /\ ~color /\ ~outTerm /\ ~errTerm
    /\ pgtool \in PgTools
    /\ pgout \in PgOutputs
    /\ pgres = NoResult
    /\ table = <<>>
    /\ lookup = NoLookup
    /\ DetectIdle
    /\ LifeIdle
    /\ DistIdle

ProbeNext ==
    \/ PgConfigSpawnFailed
    \/ PgConfigExitFailed
    \/ PgConfigNew
    \/ \E k \in LookupKeys : PgConfigGet(k)

ProbeSpec == ProbeInit /\ [][ProbeNext]_vars

(* --------------------------- Pgxs::evaluate --------------------------- *)

\* Lines in the build files of one directory, all files together.
MaxMakeLines == 2

\* A line of a build file: whitespace before the first word, the word, the
\* whitespace after it and the operator that follows.
MakeLine(lead, name, pad, op) ==
    [bad |-> FALSE, lead |-> lead, name |-> name, pad |-> pad, op |-> op]

\* A line that reader.lines() returns Err for (bytes that are not UTF-8, or
\* a failed read).
BadLine == [bad |-> TRUE, lead |-> 0, name |-> "", pad |-> 0, op |-> ""]

\* How the lines start and how they go on.
LineStarts ==
    {<<0, "PG_CONFIG">>, <<1, "PG_CONFIG">>, <<0, "EXTENSION">>,
     <<0, "DATA_built">>, <<0, "OBJS">>}
LineAssigns == {<<0, "=">>, <<1, "?=">>, <<1, ":=">>, <<0, "+=">>}

MakeLines ==
    {MakeLine(s[1], s[2], a[1], a[2]) : s \in LineStarts, a \in LineAssigns}
        \cup {BadLine}

\* [:?]?= of both patterns
AssignOps == {"=", ":=", "?="}

\* ^PG_CONFIG\s*[:?]?=\s*
PgcRx(line) ==
    ~line.bad /\ line.lead = 0 /\ line.name = "PG_CONFIG" /\ line.op \in AssignOps

\* The second pattern without its [:?]?: a plain = only.
VarRxPlainOnly(line) ==
    /\ ~line.bad
    /\ line.lead = 0
    /\ line.name \in {"MODULES", "MODULE_big", "PROGRAM", "EXTENSION", "DATA",
                      "DATA_built"}
    /\ line.op = "="

\* ^(MODULE(?:S|_big)|PROGRAM|EXTENSION|DATA(?:_built)?)\s*[:?]?=
VarRx(line) ==
    /\ ~line.bad
    /\ line.lead = 0
    /\ line.name \in {"MODULES", "MODULE_big", "PROGRAM", "EXTENSION", "DATA",
                      "DATA_built"}
    /\ line.op \in AssignOps

\* The build files with n lines: any state of an empty file when n = 0.
FilesOfLen(n) ==
    IF n = 0 THEN {Absent, Unopenable, File(<<>>)}
    ELSE {File(c) : c \in [1..n -> MakeLines]}

\* How many lines each of the three build files has: at most MaxMakeLines
\* in all.
LineCounts ==
    {u \in (0..MaxMakeLines) \X (0..MaxMakeLines) \X (0..MaxMakeLines) :
        u[1] + u[2] + u[3] <= MaxMakeLines}

\* dir is a directory whose build files have at most MaxMakeLines lines.
IsMakeDir(dir) ==
    \E t \in LineCounts :
        \E x \in FilesOfLen(t[1]), y \in FilesOfLen(t[2]), z \in FilesOfLen(t[3]) :
            dir = [GNUmakefile |-> x, makefile |-> y, Makefile |-> z]

\* makefile() that looks for Makefile only.
MakefileCapitalOnly(dir) == IF dir["Makefile"].exists THEN Some("Makefile") ELSE None

\* makefile() that tries the names in the opposite order.
MakefileLastFirst(dir) ==
    LET found == {i \in 1..Len(MakefileNames) : dir[MakefileNames[i]].exists}
    IN  IF found = {} THEN None
        ELSE Some(MakefileNames[CHOOSE i \in found : \A j \in found : i >= j])

\* makefile(): the first of the three names that exists.
Makefile(dir) ==
    LET found == {i \in 1..Len(MakefileNames) : dir[MakefileNames[i]].exists}
    IN  IF found = {} THEN None
        ELSE Some(MakefileNames[CHOOSE i \in found : \A j \in found : i <= j])

\* reader.lines().map_while(Result::ok): the lines before the first Err.
ScannedLines(ls) ==
    LET bad == {i \in 1..Len(ls) : ls[i].bad}
    IN  IF bad = {} THEN ls
        ELSE SubSeq(ls, 1, (CHOOSE i \in bad : \A j \in bad : i <= j) - 1)

\* The body of the scanning loop, for one line.
ScoreLine(score, line) ==
    IF PgcRx(line) THEN 255 ELSE IF VarRx(line) THEN 200 ELSE score

\* The scanning loop.
RECURSIVE ScanLines(_, _)
ScanLines(ls, score) ==
    IF ls = <<>> THEN score ELSE ScanLines(Tail(ls), ScoreLine(score, Head(ls)))

\* Pgxs::evaluate
PgxsEvaluate(dir) ==
    LET file == Makefile(dir)
    IN  IF ~file.some THEN Context(0, <<>>, None)
        ELSE IF dir[file.val].open
        THEN Context(ScanLines(ScannedLines(dir[file.val].content), 127), <<>>, None)
        ELSE Context(127, <<>>, None)

\* Pgxs::confidence
PgxsConfidence(dir) == PgxsEvaluate(dir).score

\* The Context of an evaluate(), with the pipeline that made it.
Evaluated(by, c) ==
    [by |-> by, score |-> c.score, config |-> c.config, err |-> c.err]

\* What a call returned, with the function that was called.
Built(by, r) == [by |-> by, kind |-> r.kind, name |-> r.name, msg |-> r.msg]

DetectFrame ==
    UNCHANGED <<pc, callVars, childVars, pipe, threadVars, sinkVars, res,
                termVars, runVars, probeVars, lifeVars, distVars>>

\* Pgxs::evaluate(dir) is called.
EvaluatePgxs ==
    /\ ctx = NoContext
    /\ ctx' = Evaluated("pgxs", PgxsEvaluate(files))
    /\ UNCHANGED <<files, cargo, meta, built>>
    /\ DetectFrame

PgxsInit ==
    /\ CoreInit
    /\ ~color /\ ~outTerm /\ ~errTerm
    /\ ProbeIdle
    /\ IsMakeDir(files)
    /\ cargo = Absent
    /\ meta = [dependencies |-> None]
    /\ ctx = NoContext
    /\ built = NotBuilt
    /\ LifeIdle
    /\ DistIdle

PgxsNext == EvaluatePgxs

PgxsSpec == PgxsInit /\ [][PgxsNext]_vars

(* --------------------------- Pgrx::evaluate --------------------------- *)

\* Crates a manifest may depend on.
Crates == {"pgrx", "serde"}

\* What cargo_toml::Manifest::from_path cannot parse.
Garbage ==
    [parses |-> FALSE, dependencies |-> {}, dev_dependencies |-> {},
     workspace |-> None, package |-> None]

\* The manifests: the keys of [dependencies] and of [dev-dependencies], the
\* [workspace] table with its dependencies and members, the [package] table.
Manifests ==
    [parses : {TRUE},
     dependencies : SUBSET Crates,
     dev_dependencies : SUBSET {"pgrx"},
     workspace : {None} \cup
        {Some(w) : w \in [dependencies : SUBSET Crates,
                          members : {<<>>, <<"ext">>}]},
     package : {None, Some([name |-> "pair"])}]

\* The states of Cargo.toml.
Cargos == {Absent, Unopenable, File(Garbage)} \cup {File(m) : m \in Manifests}

\* BuildError::SelectPackage and BuildError::NoPackage
SelectPackage(members) == [kind |-> "SelectPackage", members |-> members]
NoPackage == [kind |-> "NoPackage", members |-> <<>>]

\* get_score that looks at [dependencies] only.
GetScoreNoWorkspace(m) == IF "pgrx" \in m.dependencies THEN 255 ELSE 0

\* get_score
GetScore(m) ==
    IF "pgrx" \in m.dependencies THEN 255
    ELSE IF m.workspace.some /\ "pgrx" \in m.workspace.val.dependencies THEN 255
    ELSE 0

\* Manifest::from_path(file) returned Ok.
FromPathOk(file) == file.open /\ file.content.parses

\* Pgrx::evaluate
PgrxEvaluate(file) ==
    IF ~file.exists THEN Context(0, <<>>, None)
    ELSE IF FromPathOk(file) /\ GetScore(file.content) > 0
    THEN LET m == file.content
             score == GetScore(m)
         IN  IF m.package.some
             THEN Context(score, Insert(EmptyMap, "package", m.package.val.name), None)
             ELSE IF m.workspace.some /\ m.workspace.val.members # <<>>
             THEN Context(score, <<>>, Some(SelectPackage(m.workspace.val.members)))
             ELSE Context(score, <<>>, Some(NoPackage))
    ELSE Context(1, <<>>, None)

\* Pgrx::confidence
PgrxConfidence(file) == PgrxEvaluate(file).score

\* Pgrx::evaluate(dir) is called.
EvaluatePgrx ==
    /\ ctx = NoContext
    /\ ctx' = Evaluated("pgrx", PgrxEvaluate(cargo))
    /\ UNCHANGED <<files, cargo, meta, built>>
    /\ DetectFrame

PgrxInit ==
    /\ CoreInit
    /\ ~color /\ ~outTerm /\ ~errTerm
    /\ ProbeIdle
    /\ files = [n \in {MakefileNames[i] : i \in 1..3} |-> Absent]
    /\ cargo \in Cargos
    /\ meta = [dependencies |-> None]
    /\ ctx = NoContext
    /\ built = NotBuilt
    /\ LifeIdle
    /\ DistIdle

\* Pgrx::new: ctx.config.get("package").unwrap() panics when the Context has
\* no package.
PgrxNew(c) ==
    IF Get(c.config, "package").some
    THEN [kind |-> "Pgrx", name |-> Get(c.config, "package").val, msg |-> ""]
    ELSE [kind |-> "Panic", name |-> "",
          msg |-> "called Option::unwrap() on a None value"]

\* Pgrx::new(exec, cfg, ctx) is called with the Context evaluate() returned.
CallPgrxNew ==
    /\ ctx.by = "pgrx"
    /\ built = NotBuilt
    /\ built' = Built("Pgrx::new", PgrxNew(ctx))
    /\ UNCHANGED <<files, cargo, meta, ctx>>
    /\ DetectFrame

PgrxNext ==
    \/ EvaluatePgrx
    \/ CallPgrxNew

PgrxSpec == PgrxInit /\ [][PgrxNext]_vars

(* ------------------ Build::new, Build::detect, Builder ------------------ *)

\* The pipelines release metadata may name (dist::Pipeline).
PipelineNames == {"pgxs", "pgrx", "meson", "autoconf"}

\* The release metadata: no dependencies, dependencies without a pipeline,
\* dependencies with a pipeline.
Metas ==
    {[dependencies |-> None], [dependencies |-> Some([pipeline |-> None])]}
        \cup {[dependencies |-> Some([pipeline |-> Some(n)])] : n \in PipelineNames}

\* Ok(Build::Pgxs(..)), Ok(Build::Pgrx(..)) and the two errors.
BuildPgxs == [kind |-> "Pgxs", name |-> "", msg |-> ""]
BuildPgrx == [kind |-> "Pgrx", name |-> "", msg |-> ""]
UnknownPipeline(n) ==
    [kind |-> "UnknownPipeline", name |-> n, msg |-> "unknown build pipeline"]
NoPipeline ==
    [kind |-> "NoPipeline", name |-> "",
     msg |-> "cannot detect build pipeline and none specified"]

\* Build::new whose match ends in the Pgxs arm.
BuildNewUnknownAsPgxs(p) == IF p = "pgrx" THEN BuildPgrx ELSE BuildPgxs

\* Build::new
BuildNew(p) ==
    IF p = "pgxs" THEN BuildPgxs
    ELSE IF p = "pgrx" THEN BuildPgrx
    ELSE UnknownPipeline(p)

\* Build::detect without the check of a zero score.
BuildDetectUnchecked(dir, file) ==
    IF PgrxConfidence(file) > PgxsConfidence(dir) THEN BuildPgrx ELSE BuildPgxs

\* Build::detect with `>=` for `>`: on equal scores the later pipeline wins.
BuildDetectTiesToPgrx(dir, file) ==
    LET pgxs == PgxsConfidence(dir)
        c == PgrxConfidence(file)
    IN  IF c = 0 /\ pgxs = 0 THEN NoPipeline
        ELSE IF c >= pgxs THEN BuildPgrx
        ELSE BuildPgxs

\* Build::detect
BuildDetect(dir, file) ==
    LET pgxs == PgxsConfidence(dir)
        c == PgrxConfidence(file)
        score == IF c > pgxs THEN c ELSE pgxs
        winner == IF c > pgxs THEN "pgrx" ELSE "pgxs"
    IN  IF score = 0 THEN NoPipeline
        ELSE IF winner = "pgrx" THEN BuildPgrx
        ELSE BuildPgxs

\* Builder::new that detects the pipeline whatever the metadata names.
BuilderNewAlwaysDetects(m, dir, file) == BuildDetect(dir, file)

\* Builder::new: the pipeline of the Builder, or the error.
BuilderNew(m, dir, file) ==
    IF m.dependencies.some
    THEN IF m.dependencies.val.pipeline.some
         THEN BuildNew(m.dependencies.val.pipeline.val)
         ELSE BuildDetect(dir, file)
    ELSE BuildDetect(dir, file)

\* Builder::new(dir, meta, cfg) is called.
CallBuilderNew ==
    /\ built = NotBuilt
    /\ built' = Built("Builder::new", BuilderNew(meta, files, cargo))
    /\ UNCHANGED <<files, cargo, meta, ctx>>
    /\ DetectFrame

\* Build::detect(exec, cfg) is called.
CallBuildDetect ==
    /\ built = NotBuilt
    /\ built' = Built("Build::detect", BuildDetect(files, cargo))
    /\ UNCHANGED <<files, cargo, meta, ctx>>
    /\ DetectFrame

\* The directories a Builder is made for: any Cargo.toml, and a Makefile of
\* at most one line as the only build file.
BuilderInit ==
    /\ CoreInit
    /\ ~color /\ ~outTerm /\ ~errTerm
    /\ ProbeIdle
    /\ \E z \in FilesOfLen(0) \cup FilesOfLen(1) :
        files = [GNUmakefile |-> Absent, makefile |-> Absent, Makefile |-> z]
    /\ cargo \in Cargos
    /\ meta \in Metas
    /\ ctx = NoContext
    /\ built = NotBuilt
    /\ LifeIdle
    /\ DistIdle

BuilderNext ==
    \/ CallBuilderNew
    \/ CallBuildDetect

BuilderSpec == BuilderInit /\ [][BuilderNext]_vars

(* ------------------- Builder and Pgxs lifecycle ----------------------- *)

\* The lifecycle operations of Builder and of the pipelines.
LifecycleOps == {"configure", "compile", "test", "install"}

\* Builder::test that forwards to the pipeline's install.
BuilderOpTestInstalls(kind, o) ==
    [pipeline |-> kind, op |-> IF o = "test" THEN "install" ELSE o]

\* Builder::configure, compile, test, install: the operation of the stored
\* variant that the match forwards to.
BuilderOp(kind, o) == [pipeline |-> kind, op |-> o]

\* The run calls of Pgxs with test asking for elevation.
PgxsCommandTestElevated(o) ==
    IF o = "configure" THEN [program |-> "./configure", args |-> <<>>, sudo |-> FALSE]
    ELSE IF o = "compile" THEN [program |-> "make", args |-> <<"all">>, sudo |-> FALSE]
    ELSE IF o = "test" THEN [program |-> "make", args |-> <<"installcheck">>, sudo |-> TRUE]
    ELSE [program |-> "make", args |-> <<"install">>, sudo |-> TRUE]

\* The run(program, args, sudo) call each operation of Pgxs makes.
PgxsCommand(o) ==
    IF o = "configure" THEN [program |-> "./configure", args |-> <<>>, sudo |-> FALSE]
    ELSE IF o = "compile" THEN [program |-> "make", args |-> <<"all">>, sudo |-> FALSE]
    ELSE IF o = "test" THEN [program |-> "make", args |-> <<"installcheck">>, sudo |-> FALSE]
    ELSE [program |-> "make", args |-> <<"install">>, sudo |-> TRUE]

\* The configure script and what fs::exists(dir.join("configure")) returns:
\* no script and Ok(false); a script and Ok(true); a script and Err, its
\* directory not letting the process look it up.
ConfStates == {"absent", "present", "hidden"}

\* configure that runs the script whatever fs::exists returns.
RunsAlways(f) == f.pipeline = "Pgxs"

\* The forwarded operation reaches run: every operation of Pgxs but a
\* configure for which fs::exists does not return Ok(true). The operations
\* of Pgrx run nothing.
Runs(f) == f.pipeline = "Pgxs" /\ (f.op = "configure" => conf = "present")

\* How pkglibdir takes a temporary file: it can be created and written; it
\* can be created and not written (no space left); it cannot be created (the
\* directory is missing or read-only).
LibdirStates == {"writable", "full", "missing"}

\* The temporary file of tempfile::Builder, its name not in use.
ProbeFile == "pgxn-XXXXXX.test"

\* is_writeable that answers true once the file is created.
IsWriteableIfCreated(d) == d.state # "missing"

\* is_writeable that keeps its first answer.
IsWriteableCached(d) == IF d.probed.some THEN d.probed.val ELSE d.state = "writable"

\* What is_writeable(dir) returns: tempfile_in(dir) is Ok and write! is Ok.
IsWriteable(d) == d.state = "writable"

\* maybe_sudo reaches is_writeable.
NeedsProbe(sudo) == sudo /\ Get(table, "pkglibdir").some

\* maybe_sudo that does not look at its sudo parameter.
MaybeSudoAnyCommand(program, sudo, d) ==
    IF Get(table, "pkglibdir").some /\ ~IsWriteable(d)
    THEN <<"sudo", program>>
    ELSE <<program>>

\* maybe_sudo: the program and first arguments of the Command it returns.
MaybeSudo(program, sudo, d) ==
    IF NeedsProbe(sudo) /\ ~IsWriteable(d) THEN <<"sudo", program>> ELSE <<program>>

\* cmd.args(args) on the Command of maybe_sudo.
CommandLine(c, d) == MaybeSudo(c.program, c.sudo, d) \o c.args

\* A lifecycle operation that returns Ok(()) without calling run.
CallNoRun(o) ==
    /\ pc \in {"idle", "returned"}
    /\ built.kind \in {"Pgxs", "Pgrx"}
    /\ ~Runs(BuilderOp(built.kind, o))
    /\ called' = o
    /\ res' = Ok
    /\ pc' = "returned"
    /\ UNCHANGED <<callVars, childVars, pipe, threadVars, sinkVars, termVars, runVars,
                   probeVars, detectVars, argv, libdir, conf, distVars>>

\* A lifecycle operation that calls run: maybe_sudo probes pkglibdir first
\* when it has to, and builds the Command at once when it has not.
CallRun(o) ==
    /\ pc \in {"idle", "returned"}
    /\ built.kind \in {"Pgxs", "Pgrx"}
    /\ Runs(BuilderOp(built.kind, o))
    /\ ncalls < MaxCalls
    /\ called' = o
    /\ LET c == PgxsCommand(BuilderOp(built.kind, o).op)
       IN  IF NeedsProbe(c.sudo)
           THEN pc' = "tempfile" /\ argv' = argv
           ELSE pc' = "spawn" /\ argv' = CommandLine(c, libdir)
    /\ UNCHANGED <<callVars, childVars, pipe, threadVars, sinkVars, res, termVars,
                   runVars, probeVars, detectVars, libdir, conf, distVars>>

\* What no step of is_writeable changes.
ProbeStepFrame ==
    UNCHANGED <<callVars, childVars, pipe, threadVars, sinkVars, res, termVars,
                runVars, probeVars, detectVars, called, conf, distVars>>

\* is_writeable: tempfile_in(dir) is Err; false is returned and maybe_sudo
\* builds the Command.
TempfileFails ==
    /\ pc = "tempfile"
    /\ libdir.state = "missing"
    /\ libdir' = [libdir EXCEPT !.probed = Some(IsWriteable(libdir))]
    /\ argv' = CommandLine(PgxsCommand(called), libdir)
    /\ pc' = "spawn"
    /\ ProbeStepFrame

\* is_writeable: tempfile_in(dir) is Ok; the file is in the directory.
TempfileCreated ==
    /\ pc = "tempfile"
    /\ libdir.state # "missing"
    /\ libdir' = [libdir EXCEPT !.files = @ \cup {ProbeFile}]
    /\ pc' = "write_probe"
    /\ UNCHANGED argv
    /\ ProbeStepFrame

\* is_writeable: write!(&f, "ok") is made and f is dropped, which deletes
\* the file; maybe_sudo builds the Command.
ProbeWritten ==
    /\ pc = "write_probe"
    /\ libdir' = [libdir EXCEPT !.files = @ \ {ProbeFile},
                                !.probed = Some(IsWriteable(libdir))]
    /\ argv' = CommandLine(PgxsCommand(called), libdir)
    /\ pc' = "spawn"
    /\ ProbeStepFrame

\* run: cmd.spawn() on the Command that was built.
LifeSpawned == pc = "spawn" /\ RunSpawned(argv)
LifeSpawnFailed(kind) == pc = "spawn" /\ RunSpawnFailed(argv, kind)

\* Between two calls, pkglibdir becomes writable or stops being so.
LibdirChanges ==
    /\ pc \in {"idle", "returned"}
    /\ ncalls < MaxCalls
    /\ \E st \in LibdirStates \ {libdir.state} :
            libdir' = [libdir EXCEPT !.state = st]
    /\ UNCHANGED <<pc, callVars, childVars, pipe, threadVars, sinkVars, res, termVars,
                   runVars, probeVars, detectVars, called, argv, conf, distVars>>

\* A Builder made for metadata that names its pipeline, with a PgConfig that
\* has a pkglibdir entry or has none.
LifecycleInit ==
    /\ CoreInit
    /\ ~color /\ ~outTerm /\ ~errTerm
    /\ pgtool = [path |-> "pg_config", spawn |-> "ok", status |-> Exited(0)]
    /\ pgout = <<>>
    /\ pgres = Ok
    /\ table \in {EmptyMap, Insert(EmptyMap, "pkglibdir", "/usr/lib/postgresql")}
    /\ lookup = NoLookup
    /\ files = [n \in {MakefileNames[i] : i \in 1..3} |-> Absent]
    /\ cargo = Absent
    /\ \E n \in {"pgxs", "pgrx"} :
        /\ meta = [dependencies |-> Some([pipeline |-> Some(n)])]
        /\ built = Built("Builder::new", BuilderNew(meta, files, cargo))
    /\ ctx = NoContext
    /\ called = ""
    /\ argv = <<>>
    /\ libdir \in [state : LibdirStates, files : {{"plpgsql.so"}}, probed : {None}]
    /\ conf \in ConfStates
    /\ DistIdle

LifecycleNext ==
    \/ \E o \in LifecycleOps : CallNoRun(o)
    \/ \E o \in LifecycleOps : CallRun(o)
    \/ TempfileFails
    \/ TempfileCreated
    \/ ProbeWritten
    \/ LifeSpawned
    \/ \E k \in SpawnErrorKinds : LifeSpawnFailed(k)
    \/ LibdirChanges
    \/ FillOut
    \/ FillOutFails
    \/ FillErr
    \/ FillErrFails
    \/ RunFillError
    \/ RunWrite
    \/ RunWriteOutFails
    \/ RunWriteErrFails
    \/ RunWait
    \/ \E s \in Streams : ChildWrite(s)
    \/ \E s \in Streams : ChildWriteBroken(s)
    \/ \E s \in Streams : ChildSigpipe(s)
    \/ ChildExit
    \/ OrphanExit

LifecycleSpec == LifecycleInit /\ [][LifecycleNext]_vars

(* ------------------------ Dist::best_version -------------------------- *)

\* Releases a category list holds at most.
MaxReleases == 2

\* semver Versions, by their rank in the precedence order.
Versions == {1, 2, 3}

\* Option<Vec<Release>>: the key is missing, or a list in the order the
\* document gives it, which may be empty. Only the version of a Release is
\* kept; best_version does not read its date.
ReleaseLists ==
    {None} \cup {Some(l) : l \in UNION {[1..n -> Versions] : n \in 0..MaxReleases}}

\* What best_version ends in.
Best(kind, v, m) == [kind |-> kind, version |-> v, msg |-> m]

\* latest_version: None for None, and list[0] otherwise, which panics on an
\* empty list.
LatestVersion(releases) ==
    IF ~releases.some THEN Best("None", 0, "")
    ELSE IF releases.val = <<>>
    THEN Best("Panic", 0, "index out of bounds: the len is 0 but the index is 0")
    ELSE Best("Some", releases.val[1], "")

\* What `if let Some(v) = latest { return Ok(v) }` returns, for a latest that
\* is not None.
Returned(latest) ==
    IF latest.kind = "Some" THEN Best("Ok", latest.version, "") ELSE latest

\* Dist::best_version
BestVersion(d) ==
    IF LatestVersion(d.stable).kind # "None" THEN Returned(LatestVersion(d.stable))
    ELSE IF LatestVersion(d.testing).kind # "None"
    THEN Returned(LatestVersion(d.testing))
    ELSE IF LatestVersion(d.unstable).kind # "None"
    THEN Returned(LatestVersion(d.unstable))
    ELSE Best("Invalid", 0, "missing release data")

\* dist.best_version() is called.
CallBestVersion ==
    /\ best.kind = "None"
    /\ best' = BestVersion(dist)
    /\ UNCHANGED <<dist, pc, callVars, childVars, pipe, threadVars, sinkVars, res,
                   termVars, runVars, probeVars, detectVars, lifeVars>>

\* Any Dist that from_reader can load.
DistInit ==
    /\ CoreInit
    /\ ~color /\ ~outTerm /\ ~errTerm
    /\ ProbeIdle
    /\ DetectIdle
    /\ LifeIdle
    /\ dist \in [stable : ReleaseLists, testing : ReleaseLists, unstable : ReleaseLists]
    /\ best = Best("None", 0, "")

DistNext == CallBestVersion

DistSpec == DistInit /\ [][DistNext]_vars

(* ------------------------------ claims -------------------------------- *)

\* The lines a sink holds, in the order they were written.
SinkLines(sink) == [i \in 1..Len(sink) |-> sink[i].line]

\* The lines the child has written to stream s, in order.
Produced(s) == [i \in 1..written[s] |-> Line(s, i)]

IsPrefix(a, b) == Len(a) <= Len(b) /\ \A i \in 1..Len(a) : a[i] = b[i]

\* The current call has returned and had spawned its child.
ReturnedAfterSpawn == pc = "returned" /\ child # "none"

\* No read of a pipe and no write to a sink failed, and both readers ended.
NoIoFailure == ~wfail /\ \A s \in Streams : thr[s] = "ok"

\* C1 (as stated): when execute returns after a spawn, the out sink holds
\* exactly the child's stdout lines in order and the err sink exactly its
\* stderr lines in order, for every child and every interleaving.
C1_AllLinesDelivered ==
    ReturnedAfterSpawn =>
        /\ SinkLines(out) = Produced("stdout")
        /\ SinkLines(err) = Produced("stderr")

\* C1 (amended): at every moment each sink holds a prefix of its stream's
\* lines, in the child's order (nothing duplicated, reordered or crossed
\* over); and when execute returns without a failed pipe read or sink write,
\* each sink holds all of its stream's lines, whatever the exit status.
C1_LinesInOrder ==
    /\ IsPrefix(SinkLines(out), Produced("stdout"))
    /\ IsPrefix(SinkLines(err), Produced("stderr"))
    /\ (ReturnedAfterSpawn /\ NoIoFailure) =>
           /\ SinkLines(out) = Produced("stdout")
           /\ SinkLines(err) = Produced("stderr")

\* C1 witness: a call returned with two stdout lines and one stderr line
\* delivered, the child having failed with a non-zero code.
C1_Witness ==
    /\ ReturnedAfterSpawn
    /\ NoIoFailure
    /\ Len(out) = 2
    /\ Len(err) = 1
    /\ status = Exited(2)

\* C2: every line in the out sink was read from the stdout pipe and every
\* line in the err sink from the stderr pipe, in every branch of the loop.
C2_SinkMatchesStream ==
    /\ \A i \in 1..Len(out) : out[i].line.src = "stdout"
    /\ \A i \in 1..Len(err) : err[i].line.src = "stderr"

\* C2 witness: the last branch (only err is a terminal) has written a line
\* to each sink.
C2_Witness == Branch = 4 /\ out # <<>> /\ err # <<>>

\* C3 (as stated): at every return of execute, the result is Ok exactly when
\* the child was spawned, both readers finished without error and the child
\* exited with code 0; a non-zero code N gives Command "exited with status
\* code: N", a signal gives Command "process terminated by signal".
C3_OkIffExitZero ==
    [][(pc # "returned" /\ pc' = "returned") =>
        /\ res'.kind = "Ok" <=>
               /\ child' = "exited"
               /\ \A s \in Streams : thr'[s] = "ok"
               /\ status' = Exited(0)
        /\ (child' = "exited" /\ ~status'.signal /\ status'.code # 0) =>
               res' = Command(cmd', "exited with status code", status'.code)
        /\ (child' = "exited" /\ status'.signal) =>
               res' = Command(cmd', "process terminated by signal", 0)]_vars

\* C3 (amended): execute returns Ok exactly when the child was spawned, no
\* write to a sink failed, both readers finished without error and the child
\* exited with code 0; when no sink write and no pipe read failed, a non-zero
\* code N gives Command "exited with status code: N" and a signal gives
\* Command "process terminated by signal".
C3_OkIffCleanExitZero ==
    pc = "returned" =>
        /\ res.kind = "Ok" <=>
               (child = "exited" /\ NoIoFailure /\ status = Exited(0))
        /\ (child = "exited" /\ NoIoFailure /\ ~status.signal /\ status.code # 0) =>
               res = Command(cmd, "exited with status code", status.code)
        /\ (child = "exited" /\ NoIoFailure /\ status.signal) =>
               res = Command(cmd, "process terminated by signal", 0)

\* C3 witness: a call whose child wrote a line and exited with code 2 has
\* returned the Command error for that code.
C3_Witness ==
    /\ pc = "returned"
    /\ NoIoFailure
    /\ out # <<>>
    /\ res = Command(cmd, "exited with status code", 2)

\* C4: a call whose spawn failed has returned a Command error that carries
\* the command and an OS error kind, has no reader thread, and has written
\* nothing to either sink nor sent anything on the channel.
C4_SpawnFailure ==
    (pc = "returned" /\ child = "none") =>
        /\ res.kind = "Command"
        /\ res.cmd = cmd
        /\ res.msg \in SpawnErrorKinds
        /\ \A s \in Streams : thr[s] = "none"
        /\ out = <<>> /\ err = <<>> /\ rx = <<>>

\* C4 witness: the second call on an Executor failed to spawn (permission
\* denied) after a first call that ran a child.
C4_Witness ==
    /\ pc = "returned"
    /\ child = "none"
    /\ ncalls = 2
    /\ res = Command(cmd, "permission denied", 0)

\* C5: whenever execute has returned after a spawn, the child has exited and
\* both reader threads have terminated and been joined.
C5_JoinedOnReturn ==
    ReturnedAfterSpawn =>
        /\ child = "exited"
        /\ \A s \in Streams : thr[s] # "running"
        /\ joined = Streams

\* C6: under fair scheduling every call of execute that spawned its child
\* returns, however the child spreads its lines over the bounded pipes.
C6_ExecuteReturns == (pc \in {"consume", "wait", "join_out", "join_err"}) ~> (pc = "returned")

\* C6 witness: the child is blocked writing to the full stderr pipe while its
\* stdout is open and silent.
C6_Witness ==
    /\ pc = "consume"
    /\ child = "running"
    /\ next = "stderr"
    /\ Len(pipe["stderr"]) = PipeCap
    /\ pipe["stdout"] = <<>>
    /\ thr["stdout"] = "running"

\* A call of run is inside run, after the spawn.
InRun == pc \in {"fill_out", "fill_err", "write", "wait"}

\* C7: run never stops for good before it returns: while it is inside run,
\* the calling thread or the child can take a step.
C7_RunNeverBlocks == InRun => ENABLED (RunMainStep \/ ChildStep)

C9_OneChildAlive == Alive <= 1

\* C10: run reports every expected failure as an Err value: it never panics.
C10_RunNeverPanics == pc # "panicked" /\ res.kind # "Panic"

(* ----------------------- claims about PgConfig ------------------------ *)

\* str::to_lowercase, which also lowers the letters outside ASCII.
ToLowercase(text) ==
    [i \in 1..Len(text) |->
        IF text[i] = "B" THEN "b"
        ELSE IF text[i] = "U+00C9" THEN "U+00E9"
        ELSE text[i]]

\* The lines of stdout that are text of the form key = value, each as the
\* pair <<key, value>> around its first delimiter.
KeyValueLines ==
    LET ls == Lines(pgout)
    IN  {Splitn2(ls[i]) : i \in {j \in 1..Len(ls) : IsUtf8(ls[j]) /\ FindSep(ls[j]) # 0}}

\* The values of the lines whose key, lowercased, is k.
ValuesOf(k) == {kv[2] : kv \in {x \in KeyValueLines : ToLowercase(x[1]) = k}}

\* Keys to look up: those of the lines in every case variant, those stored,
\* and the keys of LookupKeys.
CandidateKeys ==
    LookupKeys \cup DOMAIN table
        \cup {kv[1] : kv \in KeyValueLines}
        \cup {ToLowercase(kv[1]) : kv \in KeyValueLines}

\* C11: for every output of the discovery tool, every stored key is
\* lowercase, get(k) returns the value of a line whose lowercased key is k,
\* and get(k) returns None when no line has the lowercased key k (so for
\* every key written in another case than the stored one, and every unknown
\* key).
C11_LowercaseLookup ==
    pgres = Ok =>
        /\ \A k \in DOMAIN table : ToLowercase(k) = k
        /\ \A k \in CandidateKeys :
            IF ValuesOf(k) # {}
            THEN Get(table, k).some /\ Get(table, k).val \in ValuesOf(k)
            ELSE Get(table, k) = None

\* The lines ls joined into one output again.
RECURSIVE Unlines(_)
Unlines(ls) ==
    IF ls = <<>> THEN <<>> ELSE Head(ls) \o <<Newline>> \o Unlines(Tail(ls))

\* The lines ls without the i-th.
WithoutLine(ls, i) == SubSeq(ls, 1, i - 1) \o SubSeq(ls, i + 1, Len(ls))

\* C12: PgConfig::new splits each line of text at its first ' = ' into key
\* and value: the table has the lowercased key, with that value unless a
\* later line sets the key again; and a line without ' = ' adds nothing and
\* changes nothing: the table is the one built from the other lines alone.
C12_LinesSplitAtFirstSep ==
    pgres = Ok =>
        LET ls == Lines(pgout)
            key(i) == ToAsciiLowercase(Splitn2(ls[i])[1])
            entry(i) == IsUtf8(ls[i]) /\ FindSep(ls[i]) # 0
        IN  /\ \A i \in 1..Len(ls) :
                entry(i) =>
                    /\ key(i) \in DOMAIN table
                    /\ (\A j \in (i + 1)..Len(ls) : entry(j) => key(j) # key(i))
                        => table[key(i)] = Splitn2(ls[i])[2]
            /\ \A i \in 1..Len(ls) :
                FindSep(ls[i]) = 0 => table = Parse(Unlines(WithoutLine(ls, i)))

\* PgConfig::new has failed: it returned an error and built no table.
PgConfigFailed == pgres.kind = "Command" /\ table = <<>>

\* C13 as claimed: a tool that cannot be spawned gives a Command error with
\* the command and the OS error kind; a tool that exits without success
\* gives a Command error with the command and its raw stdout; either way no
\* table is built.
C13_FailureCarriesRawStdout ==
    (pgres # NoResult /\ (pgtool.spawn # "ok" \/ ~Success(pgtool.status))) =>
        /\ PgConfigFailed
        /\ pgres.cmd = pgtool.path
        /\ IF pgtool.spawn # "ok"
           THEN pgres.msg = pgtool.spawn
           ELSE pgres.msg = pgout

\* C13, amended: the error of a tool that exits without success carries its
\* stdout decoded as UTF-8, every byte that is not UTF-8 replaced by U+FFFD;
\* that is the raw stdout when stdout is UTF-8.
C13_FailureCarriesStdout ==
    (pgres # NoResult /\ (pgtool.spawn # "ok" \/ ~Success(pgtool.status))) =>
        /\ PgConfigFailed
        /\ pgres.cmd = pgtool.path
        /\ IF pgtool.spawn # "ok"
           THEN pgres.msg = pgtool.spawn
           ELSE /\ Len(pgres.msg) = Len(pgout)
                /\ \A i \in 1..Len(pgout) :
                    pgres.msg[i] =
                        IF pgout[i] = BadByte THEN Replacement ELSE pgout[i]
                /\ IsUtf8(pgout) => pgres.msg = pgout

\* A tool killed by a signal after writing a key = value line and a byte
\* that is not UTF-8: PgConfig::new has returned its error.
C13_Witness ==
    /\ PgConfigFailed
    /\ pgtool.spawn = "ok"
    /\ pgtool.status = Signaled
    /\ \E i, j \in 1..Len(pgout) : pgout[i] = Sep /\ pgout[j] = BadByte

(* ------------------- claims about Pgxs confidence --------------------- *)

\* The lines of the build file Pgxs::evaluate picks (none if there is none).
BuildFileLines ==
    IF Makefile(files).some THEN files[Makefile(files).val].content ELSE <<>>

\* The line starts with PG_CONFIG, then optional whitespace, then =, ?= or :=.
AssignsPgConfig(line) ==
    ~line.bad /\ line.lead = 0 /\ line.name = "PG_CONFIG"
        /\ line.op \in {"=", "?=", ":="}

\* The line assigns one of the six PGXS variables.
AssignsPgxsVar(line) ==
    /\ ~line.bad
    /\ line.lead = 0
    /\ line.name \in {"MODULES", "MODULE_big", "PROGRAM", "EXTENSION", "DATA",
                      "DATA_built"}
    /\ line.op \in {"=", "?=", ":="}

\* C14: the Pgxs confidence is 255 whenever the build file has a PG_CONFIG
\* assignment line, whatever its other lines are and wherever the line is.
C14_PgConfigLineScores255 ==
    (ctx.by = "pgxs"
        /\ \E i \in 1..Len(BuildFileLines) : AssignsPgConfig(BuildFileLines[i]))
    => ctx.score = 255

\* C15: the Pgxs confidence is 0 if and only if the directory has none of
\* GNUmakefile, makefile, Makefile, and at least 127 when it has one.
C15_ZeroIffNoMakefile ==
    ctx.by = "pgxs" =>
        LET none == \A n \in {"GNUmakefile", "makefile", "Makefile"} : ~files[n].exists
        IN  /\ ctx.score = 0 <=> none
            /\ ~none => ctx.score >= 127

\* A directory whose only build file is a GNUmakefile that cannot be opened
\* has been evaluated.
C15_Witness ==
    /\ ctx.by = "pgxs"
    /\ ctx.score = 127
    /\ files["GNUmakefile"] = Unopenable
    /\ ~files["makefile"].exists /\ ~files["Makefile"].exists

\* The lines of the build file that are read: those before the first line
\* that cannot be read.
LinesRead ==
    LET ls == BuildFileLines
    IN  SubSeq(ls, 1, Len(ls) -
            Cardinality({i \in 1..Len(ls) : \E j \in 1..i : ls[j].bad}))

C17_PgrxScores ==
    ctx.by = "pgrx" =>
        ctx.score =
            IF ~cargo.exists THEN 0
            ELSE IF /\ cargo.open
                    /\ cargo.content.parses
                    /\ \/ "pgrx" \in cargo.content.dependencies
                       \/ /\ cargo.content.workspace.some
                          /\ "pgrx" \in cargo.content.workspace.val.dependencies
            THEN 255
            ELSE 1

\* A manifest that names pgrx in [workspace.dependencies] only, and has no
\* [package], has been evaluated.
C17_Witness ==
    /\ ctx.by = "pgrx"
    /\ ctx.score = 255
    /\ "pgrx" \notin cargo.content.dependencies
    /\ ~cargo.content.package.some

(* --------------- claims about the choice of the pipeline --------------- *)

\* The pipeline the metadata names, "" when it names none.
Declared ==
    IF meta.dependencies.some /\ meta.dependencies.val.pipeline.some
    THEN meta.dependencies.val.pipeline.val
    ELSE ""

\* C18: when the metadata names a pipeline that is not a known kind,
\* Builder::new fails with UnknownPipeline carrying that name, whatever the
\* directory contains, and makes no Builder.
C18_UnknownPipeline ==
    (built.by = "Builder::new" /\ Declared \notin {"", "pgxs", "pgrx"}) =>
        built.kind = "UnknownPipeline" /\ built.name = Declared

\* Builder::new has failed on metadata naming meson, for a directory whose
\* Makefile assigns PG_CONFIG.
C18_Witness ==
    /\ built.by = "Builder::new"
    /\ built.kind = "UnknownPipeline"
    /\ built.name = "meson"
    /\ PgxsConfidence(files) = 255

C20_NoPipelineIffZero ==
    LET zero == PgxsConfidence(files) = 0 /\ PgrxConfidence(cargo) = 0
        detects == built.by = "Build::detect"
                    \/ (built.by = "Builder::new" /\ Declared = "")
    IN  /\ detects =>
            /\ built.kind = "NoPipeline" <=> zero
            /\ zero => built.msg = "cannot detect build pipeline and none specified"
        /\ built.kind = "NoPipeline" => detects

\* Builder::new has failed for an empty directory and metadata whose
\* dependencies name no pipeline.
C20_Witness ==
    /\ built.by = "Builder::new"
    /\ meta.dependencies.some
    /\ built.kind = "NoPipeline"
    /\ ~cargo.exists /\ ~files["Makefile"].exists

HasPackage == "package" \in DOMAIN ctx.config

\* C30: Pgrx::new succeeds, without panicking, on every Context that
\* Pgrx::evaluate returned with err = None, that Context holding a 'package'
\* entry; and a Context of score 255 holds either a 'package' entry or an
\* error, never both and never neither: SelectPackage when the manifest is a
\* workspace with members, NoPackage otherwise.
C30_PgrxNewNeverPanics ==
    /\ (built.by = "Pgrx::new" /\ ~ctx.err.some) =>
            built.kind = "Pgrx" /\ HasPackage
    /\ (ctx.by = "pgrx" /\ ctx.score = 255) =>
            /\ HasPackage <=> ~ctx.err.some
            /\ ctx.err.some =>
                    LET w == cargo.content.workspace
                    IN  IF w.some /\ w.val.members # <<>>
                        THEN ctx.err.val = SelectPackage(w.val.members)
                        ELSE ctx.err.val = NoPackage

(* ---------------- claims about the build file scanned ------------------ *)

\* The build file of the highest priority that exists, "" when none does.
FirstBuildFile ==
    IF files["GNUmakefile"].exists THEN "GNUmakefile"
    ELSE IF files["makefile"].exists THEN "makefile"
    ELSE IF files["Makefile"].exists THEN "Makefile"
    ELSE ""

\* The directory with every build file but n removed.
Only(n) == [x \in DOMAIN files |-> IF x = n THEN files[x] ELSE Absent]

\* C29: the score depends on one build file only, the first that exists in
\* the order GNUmakefile, makefile, Makefile: it is the score of the
\* directory with the other build files removed. An empty GNUmakefile beside
\* a Makefile that assigns PG_CONFIG scores 127.
C29_OnlyFirstFileScanned ==
    (ctx.by = "pgxs" /\ FirstBuildFile # "") =>
        /\ ctx.score = PgxsEvaluate(Only(FirstBuildFile)).score
        /\ (/\ files["GNUmakefile"] = File(<<>>)
            /\ files["Makefile"].open
            /\ \E i \in DOMAIN files["Makefile"].content :
                    AssignsPgConfig(files["Makefile"].content[i]))
            => ctx.score = 127

\* An empty GNUmakefile beside a Makefile whose only line assigns PG_CONFIG
\* has been evaluated.
C29_Witness ==
    /\ ctx.by = "pgxs"
    /\ files["GNUmakefile"] = File(<<>>)
    /\ files["Makefile"].open
    /\ Len(files["Makefile"].content) = 1
    /\ AssignsPgConfig(files["Makefile"].content[1])
    /\ PgxsEvaluate(Only("Makefile")).score = 255

(* --------------------- claims about best_version ---------------------- *)

\* The category holds a release.
HasReleases(c) == dist[c].some /\ dist[c].val # <<>>

\* The latest version of a category that holds a release: the one that no
\* version listed in the category is higher than.
Latest(c) ==
    LET l == dist[c].val
    IN  CHOOSE v \in {l[i] : i \in DOMAIN l} : \A j \in DOMAIN l : l[j] <= v

\* C28: best_version returns the latest stable version when there are stable
\* releases, otherwise the latest testing version, otherwise the latest
\* unstable version; when no category holds a release, an empty list
\* included, it returns the error 'missing release data'; it never panics.
C28_BestVersion ==
    best.kind # "None" =>
        /\ best.kind # "Panic"
        /\ IF HasReleases("stable") THEN best = Best("Ok", Latest("stable"), "")
           ELSE IF HasReleases("testing") THEN best = Best("Ok", Latest("testing"), "")
           ELSE IF HasReleases("unstable") THEN best = Best("Ok", Latest("unstable"), "")
           ELSE best = Best("Invalid", 0, "missing release data")

(* ------------------- claims about the lifecycle ----------------------- *)

\* The command line each operation of the make-based pipeline is to run.
Expected(o) ==
    IF o = "configure" THEN <<"./configure">>
    ELSE IF o = "compile" THEN <<"make", "all">>
    ELSE IF o = "test" THEN <<"make", "installcheck">>
    ELSE <<"make", "install">>

\* The call in progress has built its Command.
Building == pc = "spawn" \/ InRun

\* The command line c starts with sudo; c without that prefix.
Elevated(c) == c # <<>> /\ c[1] = "sudo"
Bare(c) == IF Elevated(c) THEN Tail(c) ELSE c

\* The Builder is between two calls and may start a run.
BetweenCalls == pc \in {"idle", "returned"} /\ ncalls < MaxCalls

\* The result in res is the one the run of command line c ended in.
ResultOfRun(c) ==
    /\ ncalls > 0
    /\ cmd = c
    /\ res.kind = "Ok" => (child = "exited" /\ status = Exited(0))
    /\ res.kind = "Command" =>
            /\ res.cmd = c
            /\ \/ child = "none" /\ res.msg \in SpawnErrorKinds
               \/ child = "exited" /\ res = Finished(c, status)

\* C22: the Builder keeps the variant and the metadata it was constructed
\* with; every lifecycle operation can be called whenever the Builder is
\* between calls, whatever was called before; a call runs the same-named
\* operation of the variant (nothing and Ok for Pgrx, the operation's command
\* for Pgxs) and returns what that operation ended in.
C22_BuilderForwards ==
    /\ [][built' = built /\ meta' = meta]_vars
    /\ [](BetweenCalls =>
            \A o \in LifecycleOps : ENABLED (CallRun(o) \/ CallNoRun(o)))
    /\ [](built.kind = "Pgrx" =>
            (called # "" => pc = "returned" /\ res = Ok /\ ncalls = 0))
    /\ [](built.kind = "Pgxs" =>
            /\ Building => Bare(argv) = Expected(called)
            /\ (pc = "returned" /\ called # "") =>
                    \/ called = "configure" /\ conf # "present" /\ res = Ok
                    \/ ResultOfRun(cmd) /\ Bare(cmd) = Expected(called))

\* After an install, configure is called and has built its command.
C22_Witness ==
    /\ built.kind = "Pgxs"
    /\ pc = "spawn"
    /\ ncalls = 1
    /\ cmd = <<"make", "install">>
    /\ called = "configure"
    /\ argv = <<"./configure">>

\* C23: compile runs 'make all' and test runs 'make installcheck', never
\* with sudo; install runs 'make install', with or without sudo; so no
\* command that is built or was spawned starts with sudo but that of install.
C23_SudoOnlyInInstall ==
    /\ Building =>
            /\ called = "compile" => argv = <<"make", "all">>
            /\ called = "test" => argv = <<"make", "installcheck">>
            /\ called = "install" => Bare(argv) = <<"make", "install">>
            /\ Elevated(argv) => called = "install"
    /\ (ncalls > 0 /\ Elevated(cmd)) => cmd = <<"sudo", "make", "install">>

\* test has built 'make installcheck' without sudo for a pkglibdir that is
\* not writable, after an install that was run with sudo.
C23_Witness ==
    /\ pc = "spawn"
    /\ called = "test"
    /\ argv = <<"make", "installcheck">>
    /\ Get(table, "pkglibdir").some
    /\ libdir.state = "missing"
    /\ ncalls = 1
    /\ cmd = <<"sudo", "make", "install">>

\* configure has run './configure', bare and without arguments, and res is
\* what that run ended in.
ConfigureRan ==
    /\ pc \notin {"tempfile", "write_probe"}
    /\ Building => argv = <<"./configure">>
    /\ pc = "returned" => ResultOfRun(<<"./configure">>)

\* configure has returned Ok, and no './configure' was ever spawned.
ConfigureSkipped ==
    /\ pc = "returned"
    /\ res = Ok
    /\ ncalls > 0 => cmd # <<"./configure">>

C25_MaybeSudo ==
    pc = "spawn" =>
        LET c == PgxsCommand(called)
            elevates == /\ c.sudo
                        /\ "pkglibdir" \in DOMAIN table
                        /\ libdir.state # "writable"
        IN  /\ Elevated(argv) <=> elevates
            /\ argv = (IF elevates THEN <<"sudo", c.program>> ELSE <<c.program>>) \o c.args

\* install has built 'sudo make install' for a pkglibdir in which the file
\* is created and cannot be written.
C25_Witness ==
    /\ pc = "spawn"
    /\ called = "install"
    /\ argv = <<"sudo", "make", "install">>
    /\ libdir.state = "full"

\* C26: is_writeable returns true exactly when the temporary file is
\* created in the directory and written (false for a missing directory), and
\* once it has returned the directory holds the files it held before.
C26_IsWriteable ==
    /\ [][(pc \in {"tempfile", "write_probe"} /\ pc' = "spawn") =>
            /\ libdir'.probed = Some(libdir.state = "writable")
            /\ libdir.state = "missing" => libdir'.probed = Some(FALSE)]_vars
    /\ [](pc # "write_probe" => ProbeFile \notin libdir.files)
    /\ [](libdir.files \ {ProbeFile} = {"plpgsql.so"})

\* is_writeable has returned true, its file gone from the directory.
C26_Witness ==
    /\ pc = "spawn"
    /\ libdir.probed = Some(TRUE)
    /\ libdir.files = {"plpgsql.so"}

\* C27: every run that asks for elevation, the table having a pkglibdir
\* entry, is run with sudo exactly when pkglibdir is not writable at the time
\* of that run, whatever it was at the runs before.
C27_NoCaching ==
    [][(/\ pc # "spawn" /\ pc' = "spawn"
        /\ PgxsCommand(called').sudo
        /\ "pkglibdir" \in DOMAIN table) =>
            (Elevated(argv') <=> libdir.state # "writable")]_vars

\* A second install is run without sudo for a pkglibdir that is writable,
\* the first one having been run with sudo.
C27_Witness ==
    /\ pc = "spawn"
    /\ called = "install"
    /\ ncalls = 1
    /\ cmd = <<"sudo", "make", "install">>
    /\ argv = <<"make", "install">>
    /\ libdir.state = "writable"

====
